---------------------------- MODULE Spec2Model ----------------------------
(***************************************************************************)
(* Member QA Service: the retrieval engine of app/qa_engine.py (QAEngine)  *)
(* and the process that constructs and serves it (app/main.py).            *)
(*                                                                         *)
(* Strings of the program are sequences of one-character strings, so that  *)
(* lower(), strip(), split(), re.findall(r"\w+"), the substring test and   *)
(* sorted() are computed as Python computes them.  A score is kept doubled *)
(* (twice the float of the code), so the 0.5 sender bonus is the integer 1.*)
(* fuzz.partial_ratio, datetime.fromisoformat, dateparser.parse and the    *)
(* OpenAI client are libraries outside the repository: partial_ratio's     *)
(* values for a question travel with the question (its sim table), the two *)
(* timestamp parsers are tables over the raw timestamps of the records,    *)
(* and the client's call is a nondeterministic choice of its outcomes.     *)
(***************************************************************************)
EXTENDS Integers, Sequences, FiniteSets

VARIABLES
    qa_engine,   \* main.py global: "None" until the constructor has returned
    client,      \* QAEngine.client: "None" (no API key) or "OpenAI"
    messages,    \* QAEngine.messages
    user_names,  \* QAEngine.user_names
    loadPc,      \* position of startup_event / __init__ / _load_messages
    items,       \* _load_messages: the fetched batch
    parsed,      \* _load_messages: the local list being built
    rq           \* the request being served: position, locals and what it saw

vars == <<qa_engine, client, messages, user_names, loadPc, items, parsed, rq>>

-----------------------------------------------------------------------------
(* Characters and strings *)

Range(f) == {f[i] : i \in DOMAIN f}

Digits == <<"0", "1", "2", "3", "4", "5", "6", "7", "8", "9">>

UpperLetters ==
    <<"A", "B", "C", "D", "E", "F", "G", "H", "I", "J", "K", "L", "M",
      "N", "O", "P", "Q", "R", "S", "T", "U", "V", "W", "X", "Y", "Z">>

LowerLetters ==
    <<"a", "b", "c", "d", "e", "f", "g", "h", "i", "j", "k", "l", "m",
      "n", "o", "p", "q", "r", "s", "t", "u", "v", "w", "x", "y", "z">>

IndexIn(seq, c) == CHOOSE i \in 1..Len(seq) : seq[i] = c

\* ord(c), for the characters the records and the questions are written in
CodePoint(c) ==
    IF \E i \in 1..26 : UpperLetters[i] = c THEN 64 + IndexIn(UpperLetters, c)
    ELSE IF \E i \in 1..26 : LowerLetters[i] = c THEN 96 + IndexIn(LowerLetters, c)
    ELSE IF \E i \in 1..10 : Digits[i] = c THEN 47 + IndexIn(Digits, c)
    ELSE CASE c = "\t" -> 9
           [] c = "\n" -> 10
           [] c = " " -> 32
           [] c = "!" -> 33
           [] c = "," -> 44
           [] c = "-" -> 45
           [] c = "." -> 46
           [] c = ":" -> 58
           [] c = "?" -> 63
           [] c = "_" -> 95

Chars ==
    Range(UpperLetters) \cup Range(LowerLetters) \cup Range(Digits)
        \cup {"\t", "\n", " ", "!", ",", "-", ".", ":", "?", "_"}

\* ord, tabulated
Ord == [c \in Chars |-> CodePoint(c)]

IsSpace(c) == c \in {" ", "\t", "\n"}

\* the characters \w matches
WordChars ==
    {c \in Chars : Ord[c] \in 48..57 \/ Ord[c] \in 65..90 \/ Ord[c] = 95 \/ Ord[c] \in 97..122}

IsWordChar(c) == c \in WordChars

\* the lowercase of each character
LowerOf == [c \in Chars |-> IF Ord[c] \in 65..90 THEN LowerLetters[Ord[c] - 64] ELSE c]

LowerChar(c) == LowerOf[c]

\* str.lower()
Lower(s) == [i \in 1..Len(s) |-> LowerChar(s[i])]

RECURSIVE LStrip(_)
LStrip(s) == IF s # <<>> /\ IsSpace(Head(s)) THEN LStrip(Tail(s)) ELSE s

RECURSIVE RStrip(_)
RStrip(s) ==
    IF s # <<>> /\ IsSpace(s[Len(s)]) THEN RStrip(SubSeq(s, 1, Len(s) - 1)) ELSE s

\* str.strip()
Strip(s) == RStrip(LStrip(s))

\* the maximal runs of the characters of s at which keep is TRUE, in order
RECURSIVE RunsFrom(_, _, _, _)
RunsFrom(s, keep, i, cur) ==
    IF i > Len(s) THEN (IF cur = <<>> THEN <<>> ELSE <<cur>>)
    ELSE IF keep[i] THEN RunsFrom(s, keep, i + 1, Append(cur, s[i]))
    ELSE (IF cur = <<>> THEN <<>> ELSE <<cur>>) \o RunsFrom(s, keep, i + 1, <<>>)

\* re.findall(r"\w+", s)
FindWords(s) == RunsFrom(s, [i \in 1..Len(s) |-> IsWordChar(s[i])], 1, <<>>)

\* str.split()
Split(s) == RunsFrom(s, [i \in 1..Len(s) |-> ~IsSpace(s[i])], 1, <<>>)

\* a in b, for strings
IsSubstring(a, b) ==
    \E k \in 0..(Len(b) - Len(a)) : SubSeq(b, k + 1, k + Len(a)) = a

\* a < b, as Python orders strings (by code point, a proper prefix first)
RECURSIVE StrLess(_, _)
StrLess(a, b) ==
    IF b = <<>> THEN FALSE
    ELSE IF a = <<>> THEN TRUE
    ELSE IF Head(a) = Head(b) THEN StrLess(Tail(a), Tail(b))
    ELSE Ord[Head(a)] < Ord[Head(b)]

\* sorted(S), for a set of strings
RECURSIVE Sorted(_)
Sorted(S) ==
    IF S = {} THEN <<>>
    ELSE LET least == CHOOSE a \in S : \A b \in S \ {a} : StrLess(a, b)
         IN  <<least>> \o Sorted(S \ {least})

\* Optional[...]: None, or a value
None == [some |-> FALSE, val |-> <<>>]
Some(v) == [some |-> TRUE, val |-> v]

\* the truth value Python gives an Optional[str]
Truthy(o) == o.some /\ o.val # <<>>

-----------------------------------------------------------------------------
(* Tokenizer *)

STOPWORDS ==
    { <<"t","h","e">>, <<"a">>, <<"a","n">>, <<"t","o">>, <<"f","o","r">>,
      <<"o","n">>, <<"i","n">>, <<"a","n","d">>, <<"o","f">>,
      <<"m","y">>, <<"i","s">>, <<"a","r","e">>, <<"w","a","s">>,
      <<"w","e","r","e">>, <<"b","e">>, <<"h","a","v","e">>, <<"h","a","s">>,
      <<"t","h","i","s">>, <<"t","h","a","t">>, <<"n","e","x","t">>,
      <<"l","a","s","t">>, <<"w","i","t","h">>, <<"a","t">>,
      <<"p","l","e","a","s","e">>,
      <<"c","a","n">>, <<"y","o","u">>, <<"m","e">>, <<"i","t">>, <<"i">>,
      <<"w","e">>, <<"o","u","r">>, <<"f","r","o","m">> }

\* QAEngine._tokenize
Tokenize(text) ==
    LET keep(tok) == tok \notin STOPWORDS
    IN  SelectSeq(FindWords(Lower(text)), keep)

-----------------------------------------------------------------------------
(* Program constants *)

\* _guess_member: "if best_score >= 70"
Threshold == 70

\* answer: "scored[:10]"
TopK == 10

\* _score_message: "bonus += 0.5", doubled
Bonus2 == 1

-----------------------------------------------------------------------------
(* Bounds of the model *)

\* the longest batch the message source returns in Spec and SpecGuess
MaxItems == 3

\* SpecRank: how often a batch is repeated to make a long message list
MaxReps == 4

-----------------------------------------------------------------------------
(* The message source: the records a batch is made of *)

AlB == <<"A", "l", " ", "B">>
AlC == <<"A", "l", " ", "C">>
Bo == <<"B", "o">>
Blank == <<" ">>

TextFixTap == <<"f", "i", "x", " ", "t", "a", "p">>
TextTheTrip == <<"T", "h", "e", " ", "t", "a", "p", " ", "t", "r", "i", "p", ".">>
TextFixTAP == <<"F", "i", "x", " ", "T", "A", "P", "!">>
TextTrip == <<"t", "r", "i", "p">>
TextTap == <<"t", "a", "p">>

\* raw timestamps: one datetime.fromisoformat accepts, one only dateparser
\* reads, one neither reads
TsIso == "2024-01-01T10:00:00"
TsHuman == "next Tuesday"
TsGarbage == "n/a"

\* what datetime.fromisoformat(raw_ts) does: a datetime, or an exception
\* (also for raw_ts = None)
FromIsoformat(raw_ts) ==
    IF raw_ts.some /\ raw_ts.val = TsIso
    THEN [raised |-> FALSE, ts |-> [by |-> "fromisoformat", raw |-> raw_ts.val]]
    ELSE [raised |-> TRUE, ts |-> [by |-> "none", raw |-> ""]]

\* what dateparser.parse(raw_ts) does for a string: a datetime or None
DateparserParse(raw) ==
    IF raw \in {TsIso, TsHuman}
    THEN [some |-> TRUE, val |-> [by |-> "dateparser", raw |-> raw]]
    ELSE [some |-> FALSE, val |-> [by |-> "none", raw |-> ""]]

\* dateparser.parse(None): the library decides whether that raises or is None
DateparserOnNone == {"raises", "None"}

UtcNow == [by |-> "utcnow", raw |-> ""]

\* well-formed records (the id is given by the position in the batch)
GoodKinds ==
    { [user_id |-> "u1", user_name |-> AlB, timestamp |-> TsIso, message |-> TextFixTap],
      [user_id |-> "u1", user_name |-> AlB, timestamp |-> TsHuman, message |-> TextTheTrip],
      [user_id |-> "u2", user_name |-> Bo, timestamp |-> TsIso, message |-> TextFixTAP],
      [user_id |-> "u3", user_name |-> AlC, timestamp |-> TsGarbage, message |-> TextTrip],
      [user_id |-> "u4", user_name |-> Blank, timestamp |-> TsIso, message |-> TextTap] }

\* a record without a timestamp
NoTimestampKind == [user_id |-> "u2", user_name |-> Bo, message |-> TextFixTap]

\* records that lack one required field each (NoIdKind is given no id)
NoIdKind == [user_id |-> "u1", user_name |-> AlB, timestamp |-> TsIso, message |-> TextTap, noid |-> TRUE]
NoUserIdKind == [user_name |-> AlB, timestamp |-> TsIso, message |-> TextTap]
NoUserNameKind == [user_id |-> "u1", timestamp |-> TsGarbage, message |-> TextTap]
NoMessageKind == [user_id |-> "u1", user_name |-> AlB, timestamp |-> TsIso]

MalformedKinds == {NoIdKind, NoUserIdKind, NoUserNameKind, NoMessageKind}

Kinds == GoodKinds \cup {NoTimestampKind} \cup MalformedKinds

\* the record of kind k at position i of a batch
MakeItem(k, i) ==
    IF "noid" \in DOMAIN k
    THEN [f \in DOMAIN k \ {"noid"} |-> k[f]]
    ELSE [f \in DOMAIN k \cup {"id"} |-> IF f = "id" THEN i ELSE k[f]]

MakeBatch(ks) == [i \in 1..Len(ks) |-> MakeItem(ks[i], i)]

SeqsUpTo(S, n) == UNION {[1..k -> S] : k \in 0..n}

\* the batches the message source may return
Batches == {MakeBatch(ks) : ks \in SeqsUpTo(Kinds, MaxItems)}

-----------------------------------------------------------------------------
(* _load_messages, one record *)

RequiredFields == {"id", "user_id", "user_name", "message"}

\* item.get("timestamp")
RawTs(item) ==
    IF "timestamp" \in DOMAIN item
    THEN [some |-> TRUE, val |-> item["timestamp"]]
    ELSE [some |-> FALSE, val |-> ""]

\* lines 70-80: the timestamp of a record, or the exception that leaves the
\* except clause (dateparser.parse on None, when the library raises there)
ParseTimestamp(item, onNone) ==
    LET raw_ts == RawTs(item)
        iso == FromIsoformat(raw_ts)
    IN  IF ~iso.raised THEN [raised |-> FALSE, ts |-> iso.ts]
        ELSE IF ~raw_ts.some
             THEN (IF onNone = "raises"
                   THEN [raised |-> TRUE, ts |-> UtcNow]
                   ELSE [raised |-> FALSE, ts |-> UtcNow])
             ELSE LET parsed_ts == DateparserParse(raw_ts.val)
                  IN  IF ~parsed_ts.some
                      THEN [raised |-> FALSE, ts |-> UtcNow]
                      ELSE [raised |-> FALSE, ts |-> parsed_ts.val]

\* lines 82-90: Message(...) of a record, or the KeyError of item[...]
NewMessage(item, ts) ==
    IF RequiredFields \subseteq DOMAIN item
    THEN [raised |-> FALSE,
          m |-> [id |-> item["id"], user_id |-> item["user_id"],
                 user_name |-> item["user_name"], timestamp |-> ts,
                 text |-> item["message"]]]
    ELSE [raised |-> TRUE, m |-> <<>>]

\* one pass of the loop body: the message appended, or the exception
ParseItem(item, onNone) ==
    LET t == ParseTimestamp(item, onNone)
    IN  IF t.raised THEN [raised |-> TRUE, m |-> <<>>] ELSE NewMessage(item, t.ts)

\* line 93: sorted({m.user_name for m in parsed})
UserNamesOf(msgs) == Sorted({msgs[i].user_name : i \in 1..Len(msgs)})

-----------------------------------------------------------------------------
(* Questions *)

Names == {AlB, AlC, Bo, Blank}

\* the strings _guess_member hands to fuzz.partial_ratio with the question:
\* each lowercased name and each lowercased first word
SimKeys ==
    {Lower(n) : n \in Names}
        \cup {Lower(Split(n)[1]) : n \in {m \in Names : Split(m) # <<>>}}

KeyAlB == Lower(AlB)
KeyAlC == Lower(AlC)
KeyBo == Lower(Bo)
KeyAl == <<"a", "l">>

\* the keys whose similarity decides a resolution (a blank name never gets far
\* enough to have its similarity compared)
MainKeys == {KeyAlB, KeyAlC, KeyBo, KeyAl}

\* fuzz.partial_ratio's values for one question: 0 everywhere but at hit
SimAt(hit, v) == [k \in SimKeys |-> IF k = hit THEN v ELSE 0]
SimZero == [k \in SimKeys |-> 0]

\* the similarities Spec and SpecRank ask with: no name is like the question,
\* or one name or first word is contained in it
PlainSims == {SimZero} \cup {SimAt(k, 100) : k \in MainKeys}

\* the similarities SpecGuess asks with: every table over the values around
\* the threshold
ScoreValues == {0, Threshold - 1, Threshold, 100}
WideSims ==
    {[k \in SimKeys |-> IF k \in MainKeys THEN f[k] ELSE 0] : f \in [MainKeys -> ScoreValues]}

QTapFix == <<" ", "T", "a", "p", " ", "f", "i", "x", "?", " ">>
QTheTrip == <<"t", "h", "e", " ", "t", "r", "i", "p">>
QIsItOn == <<"I", "s", " ", "i", "t", " ", "o", "n", "?">>
QSpaces == <<" ", "\t", " ">>

BlankQuestions ==
    {[raw |-> r, sim |-> SimZero] : r \in {None, Some(<<>>), Some(QSpaces)}}

Questions ==
    BlankQuestions
        \cup {[raw |-> Some(t), sim |-> f] : t \in {QTapFix, QTheTrip, QIsItOn}, f \in PlainSims}

WideQuestions == {[raw |-> Some(QTapFix), sim |-> f] : f \in WideSims}

\* fuzz.partial_ratio(s, q), q the lowercased question asked
PartialRatio(s, question) == question.sim[s]

-----------------------------------------------------------------------------
(* Member resolution *)

Max(a, b) == IF a >= b THEN a ELSE b

\* line 161: a name replaces the best one so far
BetterAlsoOnTie(score, best_score) == score >= best_score
Better(score, best_score) == score > best_score

\* line 166: the best score resolves
Resolves(best_score) == best_score >= Threshold

\* lines 156-169: the loop from the i-th name on, and the return
RECURSIVE GuessFrom(_, _, _, _, _)
GuessFrom(question, names, i, best_name, best_score) ==
    IF i > Len(names)
    THEN [raised |-> FALSE,
          member |-> IF Resolves(best_score) THEN best_name ELSE None]
    ELSE LET name == names[i]
             full_score == PartialRatio(Lower(name), question)
             words == Split(name)
         IN  IF words = <<>>
             THEN [raised |-> TRUE, member |-> None]   \* IndexError of split()[0]
             ELSE LET first_score == PartialRatio(Lower(words[1]), question)
                      score == Max(full_score, first_score)
                  IN  IF Better(score, best_score)
                      THEN GuessFrom(question, names, i + 1, Some(name), score)
                      ELSE GuessFrom(question, names, i + 1, best_name, best_score)

\* QAEngine._guess_member
GuessMember(question, names) == GuessFrom(question, names, 1, None, 0)

-----------------------------------------------------------------------------
(* Scoring and ranking *)

\* lines 189-191, doubled
NoSenderBonus(message, member) == 0
SenderBonus(message, member) ==
    IF Truthy(member) /\ IsSubstring(Lower(member.val), Lower(message.user_name))
    THEN Bonus2
    ELSE 0

\* QAEngine._score_message, doubled
ScoreMessage(q_tokens, message, member) ==
    LET m_tokens == Tokenize(message.text)
        overlap == Cardinality(Range(q_tokens) \cap Range(m_tokens))
    IN  2 * overlap + SenderBonus(message, member)

\* lines 123-127 and 131-134: the (score, m) pairs of the candidates that score
\* above 0, in the candidates' order
ScoredOf(candidates, q_tokens, member) ==
    LET pairs == [i \in 1..Len(candidates) |->
                    [score |-> ScoreMessage(q_tokens, candidates[i], member),
                     m |-> candidates[i]]]
        positive(p) == p.score > 0
    IN  SelectSeq(pairs, positive)

\* lines 115-119
CandidatesOf(msgs, member) ==
    LET ofMember(m) == m.user_name = member.val
    IN  IF Truthy(member) THEN SelectSeq(msgs, ofMember) ELSE msgs

\* x put into a list sorted by score descending, behind its equals
RECURSIVE InsertDescBeforeEquals(_, _)
InsertDescBeforeEquals(sorted, x) ==
    IF sorted = <<>> THEN <<x>>
    ELSE IF Head(sorted).score > x.score
         THEN <<Head(sorted)>> \o InsertDescBeforeEquals(Tail(sorted), x)
         ELSE <<x>> \o sorted

RECURSIVE InsertDesc(_, _)
InsertDesc(sorted, x) ==
    IF sorted = <<>> THEN <<x>>
    ELSE IF Head(sorted).score >= x.score
         THEN <<Head(sorted)>> \o InsertDesc(Tail(sorted), x)
         ELSE <<x>> \o sorted

\* line 139: scored.sort(key=lambda x: x[0], reverse=True), a stable sort
RECURSIVE SortDesc(_)
SortDesc(scored) ==
    IF scored = <<>> THEN <<>>
    ELSE InsertDesc(SortDesc(SubSeq(scored, 1, Len(scored) - 1)), scored[Len(scored)])

\* line 140: [m for _, m in scored[:10]]
UncappedTop(sorted) == [i \in 1..Len(sorted) |-> sorted[i].m]
TopMessages(sorted) ==
    LET n == IF Len(sorted) < TopK THEN Len(sorted) ELSE TopK
    IN  [i \in 1..n |-> sorted[i].m]

-----------------------------------------------------------------------------
(* Outcomes *)

EMPTY_QUESTION == "Please provide a non-empty question."
NOT_LOADED == "I don't have any messages loaded, so I can't answer yet."
NOT_FOUND == "I couldn't find any messages related to that question."
UNCONFIGURED ==
    "The QA service is not fully configured (missing LLM API key), so I can't answer this question."
LLM_ERROR == "I ran into an error while generating the answer: "
CANT_TELL == "I can't tell from the available messages."

\* what answer gives back: kind "return" with the text (an answer of the model
\* is kept in chars, stripped), or kind "raise" with the exception; the
\* handlers add "http500" and "health" (n the count reported)
Result(kind, text) == [kind |-> kind, text |-> text, chars |-> <<>>, n |-> 0]
NoResult == Result("none", "")

\* what client.chat.completions.create may do: raise, or give a completion
\* whose content is None, blank, or a text
LlmOutcomes ==
    { [raised |-> TRUE, e |-> "Connection error.", content |-> None],
      [raised |-> TRUE, e |-> "", content |-> None],
      [raised |-> FALSE, e |-> "", content |-> None],
      [raised |-> FALSE, e |-> "", content |-> Some(<<" ">>)],
      [raised |-> FALSE, e |-> "", content |-> Some(<<" ", "T", "u", "e", ".">>)] }

-----------------------------------------------------------------------------
(* The request being served *)

\* what a call selected: the outcome retrieval ended with ("answerer" when it
\* handed messages over), the messages and the member handed over
Selection(r) ==
    [outcome |-> IF r.answerer THEN "answerer" ELSE r.result.text,
     top |-> r.top,
     handed |-> r.handed]

NoPrev == [has |-> FALSE, sel |-> [outcome |-> "", top |-> <<>>, handed |-> [some |-> FALSE, val |-> <<>>]]]

IdleRq ==
    [pc |-> "idle",
     question |-> [raw |-> None, sim |-> SimZero],
     q |-> <<>>,               \* the stripped question
     member |-> None,          \* answer's local member
     scored |-> <<>>,          \* answer's local scored, as the passes left it
     top |-> <<>>,             \* top_messages
     handed |-> None,          \* the member given to _llm_answer
     result |-> NoResult,
     guessed |-> FALSE,        \* _guess_member was called
     scoredAny |-> FALSE,      \* a scoring pass ran
     fellBack |-> FALSE,       \* the second pass ran
     answerer |-> FALSE,       \* _llm_answer was called
     llmRaised |-> FALSE,      \* the client's call raised
     by |-> "none",            \* the pass that filled scored: "first", "fallback"
     byMember |-> None,        \* the member that pass scored with
     sawMessages |-> <<>>,     \* self.messages as this call read it
     sawNames |-> <<>>,        \* self.user_names as this call read it
     before |-> [messages |-> <<>>, user_names |-> <<>>],
                               \* the engine's lists when the question was first asked
     prev |-> NoPrev]          \* the previous call with the same question

Done(r, result) == [r EXCEPT !.pc = "done", !.result = result]

-----------------------------------------------------------------------------
(* startup_event, QAEngine.__init__ and _load_messages *)

Init ==
    /\ qa_engine = "None"
    /\ client = "None"
    /\ messages = <<>>
    /\ user_names = <<>>
    /\ loadPc = "startup"
    /\ items = <<>>
    /\ parsed = <<>>
    /\ rq = IdleRq

\* __init__, lines 46-53: the fields, and the client the environment gives
Construct ==
    /\ loadPc = "startup"
    /\ messages' = <<>>
    /\ user_names' = <<>>
    /\ \E c \in {"None", "OpenAI"} : client' = c
    /\ loadPc' = "fetch"
    /\ UNCHANGED <<qa_engine, items, parsed, rq>>

\* lines 61-68: the batch arrives
Fetch ==
    /\ loadPc = "fetch"
    /\ \E batch \in Batches : items' = batch
    /\ parsed' = <<>>
    /\ loadPc' = "loop"
    /\ UNCHANGED <<qa_engine, client, messages, user_names, rq>>

\* lines 61-64: requests.get, raise_for_status or resp.json raises
FetchFails ==
    /\ loadPc = "fetch"
    /\ loadPc' = "failed"
    /\ UNCHANGED <<qa_engine, client, messages, user_names, items, parsed, rq>>

\* lines 69-90: the loop body for the next record
LoadItemInPlace ==
    /\ loadPc = "loop"
    /\ Len(parsed) < Len(items)
    /\ \E onNone \in DateparserOnNone :
          LET r == ParseItem(items[Len(parsed) + 1], onNone)
          IN  IF r.raised
              THEN /\ loadPc' = "failed"
                   /\ UNCHANGED <<parsed, messages>>
              ELSE /\ parsed' = Append(parsed, r.m)
                   /\ messages' = Append(parsed, r.m)
                   /\ loadPc' = "loop"
    /\ UNCHANGED <<qa_engine, client, user_names, items, rq>>

LoadItem ==
    /\ loadPc = "loop"
    /\ Len(parsed) < Len(items)
    /\ \E onNone \in DateparserOnNone :
          LET r == ParseItem(items[Len(parsed) + 1], onNone)
          IN  IF r.raised
              THEN /\ loadPc' = "failed"
                   /\ parsed' = parsed
              ELSE /\ parsed' = Append(parsed, r.m)
                   /\ loadPc' = "loop"
    /\ UNCHANGED <<qa_engine, client, messages, user_names, items, rq>>

\* line 92: self.messages = parsed, once the loop is through
PublishMessages ==
    /\ loadPc = "loop"
    /\ Len(parsed) = Len(items)
    /\ messages' = parsed
    /\ loadPc' = "names"
    /\ UNCHANGED <<qa_engine, client, user_names, items, parsed, rq>>

\* line 93: self.user_names = sorted(...)
PublishNames ==
    /\ loadPc = "names"
    /\ user_names' = UserNamesOf(parsed)
    /\ loadPc' = "constructed"
    /\ UNCHANGED <<qa_engine, client, messages, items, parsed, rq>>

\* main.py line 43: the global is bound when the constructor has returned
EngineBoundEarly ==
    /\ loadPc \in {"names", "constructed"}
    /\ qa_engine' = "ready"
    /\ loadPc' = IF loadPc = "constructed" THEN "serving" ELSE loadPc
    /\ UNCHANGED <<client, messages, user_names, items, parsed, rq>>

BindEngine ==
    /\ loadPc = "constructed"
    /\ qa_engine' = "ready"
    /\ loadPc' = "serving"
    /\ UNCHANGED <<client, messages, user_names, items, parsed, rq>>

Startup == Construct \/ Fetch \/ FetchFails \/ LoadItem \/ PublishMessages \/ PublishNames \/ BindEngine

-----------------------------------------------------------------------------
(* The handlers of main.py and QAEngine.answer *)

\* main.py lines 51-52, 62-63, 74-75: no engine yet, HTTP 500
NotInitialized ==
    /\ rq.pc = "idle"
    /\ qa_engine = "None"
    /\ rq' = Done(rq, Result("http500", "QA engine not initialized"))
    /\ UNCHANGED <<qa_engine, client, messages, user_names, loadPc, items, parsed>>

\* main.py lines 46-53: /health
Health ==
    /\ rq.pc = "idle"
    /\ qa_engine # "None"
    /\ rq' = Done([rq EXCEPT !.sawMessages = messages],
                  [Result("health", "ok") EXCEPT !.n = Len(messages)])
    /\ UNCHANGED <<qa_engine, client, messages, user_names, loadPc, items, parsed>>

\* (question or "").strip()
Normalize(raw) == Strip(IF raw.some THEN raw.val ELSE <<>>)

\* lines 104-109 with the two checks in the other order
BeginLoadedFirst(r, question) ==
    LET q == Normalize(question.raw)
        r1 == [r EXCEPT !.question = question, !.q = q,
                        !.before = IF r.prev.has THEN r.before
                                   ELSE [messages |-> messages, user_names |-> user_names]]
    IN  IF messages = <<>>
        THEN Done(r1, Result("return", NOT_LOADED))
        ELSE IF q = <<>>
             THEN Done(r1, Result("return", EMPTY_QUESTION))
             ELSE [r1 EXCEPT !.pc = "loaded"]

\* lines 104-106, for the call r that starts with this question
Begin(r, question) ==
    LET q == Normalize(question.raw)
        r1 == [r EXCEPT !.question = question, !.q = q,
                        !.before = IF r.prev.has THEN r.before
                                   ELSE [messages |-> messages, user_names |-> user_names]]
    IN  IF q = <<>>
        THEN Done(r1, Result("return", EMPTY_QUESTION))
        ELSE [r1 EXCEPT !.pc = "loaded"]

\* /ask (main.py lines 56-78) with the engine bound: answer, lines 104-106
Ask(Qs) ==
    /\ rq.pc = "idle"
    /\ qa_engine # "None"
    /\ \E question \in Qs : rq' = Begin(rq, question)
    /\ UNCHANGED <<qa_engine, client, messages, user_names, loadPc, items, parsed>>

\* lines 108-109
CheckLoaded ==
    /\ rq.pc = "loaded"
    /\ rq' = IF messages = <<>>
             THEN Done(rq, Result("return", NOT_LOADED))
             ELSE [rq EXCEPT !.pc = "guess"]
    /\ UNCHANGED <<qa_engine, client, messages, user_names, loadPc, items, parsed>>

\* line 112
Guess ==
    /\ rq.pc = "guess"
    /\ LET g == GuessMember(rq.question, user_names)
           r1 == [rq EXCEPT !.guessed = TRUE, !.sawNames = user_names]
       IN  rq' = IF g.raised
                 THEN Done(r1, Result("raise", "IndexError"))
                 ELSE [r1 EXCEPT !.member = g.member, !.pc = "pass1"]
    /\ UNCHANGED <<qa_engine, client, messages, user_names, loadPc, items, parsed>>

\* lines 115-127: the pass over the candidates
FirstPass ==
    /\ rq.pc = "pass1"
    /\ LET scored == ScoredOf(CandidatesOf(messages, rq.member), Tokenize(rq.q), rq.member)
       IN  rq' = [rq EXCEPT !.scored = scored,
                            !.scoredAny = TRUE,
                            !.sawMessages = messages,
                            !.by = IF scored # <<>> THEN "first" ELSE "none",
                            !.byMember = rq.member,
                            !.pc = IF scored = <<>> THEN "pass2" ELSE "rank"]
    /\ UNCHANGED <<qa_engine, client, messages, user_names, loadPc, items, parsed>>

\* lines 130-134: nothing scored, the pass over all messages with no member
Fallback ==
    /\ rq.pc = "pass2"
    /\ LET scored == ScoredOf(messages, Tokenize(rq.q), None)
       IN  rq' = [rq EXCEPT !.scored = scored,
                            !.fellBack = TRUE,
                            !.by = IF scored # <<>> THEN "fallback" ELSE "none",
                            !.byMember = None,
                            !.pc = "rank"]
    /\ UNCHANGED <<qa_engine, client, messages, user_names, loadPc, items, parsed>>

\* _llm_answer lines 203-208, entered with the call r
EnterLlm(r) ==
    LET r1 == [r EXCEPT !.answerer = TRUE]
    IN  IF client = "None"
        THEN Done(r1, Result("return", UNCONFIGURED))
        ELSE [r1 EXCEPT !.pc = "llm"]

\* the member answer gives _llm_answer (line 143)
HandedNone(r) == None
Handed(r) == r.member

\* lines 136-143: nothing found, or sort, cut and hand over
RankInPlace ==
    /\ rq.pc = "rank"
    /\ rq' = IF rq.scored = <<>>
             THEN Done(rq, Result("return", NOT_FOUND))
             ELSE EnterLlm([rq EXCEPT !.top = TopMessages(SortDesc(rq.scored)),
                                      !.handed = Handed(rq)])
    /\ messages' = IF rq.scored = <<>> THEN messages ELSE UncappedTop(SortDesc(rq.scored))
    /\ UNCHANGED <<qa_engine, client, user_names, loadPc, items, parsed>>

Rank ==
    /\ rq.pc = "rank"
    /\ rq' = IF rq.scored = <<>>
             THEN Done(rq, Result("return", NOT_FOUND))
             ELSE EnterLlm([rq EXCEPT !.top = TopMessages(SortDesc(rq.scored)),
                                      !.handed = Handed(rq)])
    /\ UNCHANGED <<qa_engine, client, messages, user_names, loadPc, items, parsed>>

\* _llm_answer lines 238-252, for one outcome of the client's call
LlmResult(o) ==
    IF o.raised THEN Result("return", LLM_ERROR \o o.e)
    ELSE IF ~o.content.some THEN Result("raise", "AttributeError")
    ELSE IF Strip(o.content.val) = <<>> THEN Result("return", CANT_TELL)
    ELSE [Result("return", "") EXCEPT !.chars = Strip(o.content.val)]

\* _llm_answer lines 210-252 without the except clause
LlmNoExcept ==
    /\ rq.pc = "llm"
    /\ \E o \in LlmOutcomes :
          rq' = Done([rq EXCEPT !.llmRaised = o.raised],
                     IF o.raised THEN Result("raise", o.e) ELSE LlmResult(o))
    /\ UNCHANGED <<qa_engine, client, messages, user_names, loadPc, items, parsed>>

\* _llm_answer lines 210-252
Llm ==
    /\ rq.pc = "llm"
    /\ client # "None"
    /\ \E o \in LlmOutcomes : rq' = Done([rq EXCEPT !.llmRaised = o.raised], LlmResult(o))
    /\ UNCHANGED <<qa_engine, client, messages, user_names, loadPc, items, parsed>>

\* the request is through; the next one starts from nothing
Return ==
    /\ rq.pc = "done"
    /\ rq' = IdleRq
    /\ UNCHANGED <<qa_engine, client, messages, user_names, loadPc, items, parsed>>

\* the same question is asked again (once), what the first call selected kept
AskAgain ==
    /\ rq.pc = "done"
    /\ rq.result.kind \in {"return", "raise"}
    /\ ~rq.prev.has
    /\ qa_engine # "None"
    /\ rq' = Begin([IdleRq EXCEPT !.prev = [has |-> TRUE, sel |-> Selection(rq)],
                                  !.before = rq.before],
                   rq.question)
    /\ UNCHANGED <<qa_engine, client, messages, user_names, loadPc, items, parsed>>

Serve(Qs) ==
    \/ NotInitialized
    \/ Health
    \/ Ask(Qs)
    \/ CheckLoaded
    \/ Guess
    \/ FirstPass
    \/ Fallback
    \/ Rank
    \/ Llm
    \/ Return
    \/ AskAgain

Next == Startup \/ Serve(Questions)

Spec == Init /\ [][Next]_vars

-----------------------------------------------------------------------------
(* SpecGuess: _guess_member over every sorted name list and every table of    *)
(* similarities around the threshold                                          *)

\* the messages _load_messages makes of a batch of well-formed records
LoadAll(batch) == [i \in 1..Len(batch) |-> ParseItem(batch[i], "None").m]

\* one record per name
KindOf(name) == CHOOSE k \in GoodKinds : k.user_name = name /\ k.timestamp # TsHuman

\* an engine serving the messages of batch, client c
Serving(batch, c) ==
    /\ qa_engine = "ready"
    /\ client = c
    /\ items = batch
    /\ parsed = LoadAll(batch)
    /\ messages = LoadAll(batch)
    /\ user_names = UserNamesOf(LoadAll(batch))
    /\ loadPc = "serving"

\* a call of _guess_member on an engine, for one question
InitGuess ==
    /\ \E S \in SUBSET Names : Serving(MakeBatch([i \in 1..Len(Sorted(S)) |-> KindOf(Sorted(S)[i])]), "None")
    /\ \E question \in WideQuestions :
          rq = [Begin(IdleRq, question) EXCEPT
                   !.pc = "guess",
                   !.before = [messages |-> messages, user_names |-> user_names]]

NextGuess == Guess

SpecGuess == InitGuess /\ [][NextGuess]_vars

-----------------------------------------------------------------------------
(* SpecRank: answer over long message lists                                   *)

RankKinds == {k \in GoodKinds : k.user_name # Blank}

Repeat(ks, n) == [i \in 1..(n * Len(ks)) |-> ks[((i - 1) % Len(ks)) + 1]]

RankBatches ==
    {MakeBatch(Repeat(ks, n)) : ks \in SeqsUpTo(RankKinds, MaxItems) \ {<<>>}, n \in 1..MaxReps}

RankQuestions ==
    {[raw |-> Some(t), sim |-> f] : t \in {QTapFix, QTheTrip}, f \in PlainSims}

InitRank ==
    /\ \E batch \in RankBatches : Serving(batch, "None")
    /\ rq = IdleRq

NextRank ==
    \/ Ask(RankQuestions)
    \/ CheckLoaded
    \/ Guess
    \/ FirstPass
    \/ Fallback
    \/ Rank
    \/ Return

SpecRank == InitRank /\ [][NextRank]_vars

-----------------------------------------------------------------------------
(* The claims *)

\* rq is a call of answer (not /health, not a request the handler refused)
InAsk(r) == r.pc # "idle" /\ r.result.kind \notin {"http500", "health"}

\* the call has been through lines 136-143
Ranked(r) == r.scoredAny /\ r.pc \in {"llm", "done"}

SharesToken(q, m) == Range(Tokenize(q)) \cap Range(Tokenize(m.text)) # {}

\* C1: when a member is resolved, none of that member's messages shares a
\* token with the question and a message of another member does, the messages
\* handed to the answerer include such a message of another member.
C1_FallbackSurfacesOtherMember ==
    ( /\ InAsk(rq) /\ Ranked(rq) /\ Truthy(rq.member)
      /\ \A i \in DOMAIN messages :
            messages[i].user_name = rq.member.val => ~SharesToken(rq.q, messages[i])
      /\ \E i \in DOMAIN messages :
            messages[i].user_name # rq.member.val /\ SharesToken(rq.q, messages[i]) )
    => ( /\ rq.answerer
         /\ \E i \in DOMAIN rq.top :
               rq.top[i].user_name # rq.member.val /\ SharesToken(rq.q, rq.top[i]) )

\* the place among the scored candidates that candidate j gets: one more than
\* the number of those with a higher score, or the same score and an earlier
\* place in the message list
PlaceOf(scored, j) ==
    1 + Cardinality({i \in DOMAIN scored :
                        \/ scored[i].score > scored[j].score
                        \/ scored[i].score = scored[j].score /\ i < j})

\* C2: the messages handed to the answerer are the first min(10, n) of the n
\* candidates that scored above 0, by score descending, equal scores in the
\* order of the message list.
C2_TopK ==
    (InAsk(rq) /\ rq.answerer) =>
        LET n == Len(rq.scored)
            k == IF n < TopK THEN n ELSE TopK
        IN  /\ \A j \in DOMAIN rq.scored : rq.scored[j].score > 0
            /\ Len(rq.top) = k
            /\ \A j \in DOMAIN rq.scored :
                  PlaceOf(rq.scored, j) <= k => rq.top[PlaceOf(rq.scored, j)] = rq.scored[j].m

\* more than ten candidates scored, some of them equal, and the sort had to
\* move a later one ahead of an earlier one
C2_Witness ==
    /\ InAsk(rq) /\ rq.answerer
    /\ Len(rq.scored) > TopK
    /\ Len(rq.top) = TopK
    /\ \E i, j \in DOMAIN rq.scored : i < j /\ rq.scored[i].score < rq.scored[j].score
    /\ \E i, j \in 1..TopK : i < j /\ rq.scored[i].score = rq.scored[j].score
                                /\ PlaceOf(rq.scored, j) <= TopK

\* the batch is in the list whole
WholeBatch(msgs) ==
    /\ Len(msgs) = Len(items)
    /\ \A i \in DOMAIN msgs : msgs[i].id = items[i]["id"] /\ msgs[i].text = items[i]["message"]

\* C3: whatever a reader can get at (the engine once the global is bound, and
\* what a call or /health has read) is a whole batch, and the names are the
\* sorted distinct user names of the messages.
C3_AtomicPublish ==
    /\ qa_engine # "None" => WholeBatch(messages) /\ user_names = UserNamesOf(messages)
    /\ (InAsk(rq) /\ rq.scoredAny) =>
          WholeBatch(rq.sawMessages) /\ rq.sawNames = UserNamesOf(rq.sawMessages)
    /\ rq.result.kind = "health" => rq.result.n = Len(items) /\ WholeBatch(rq.sawMessages)

\* a request came while the messages were published and the names were not
C3_Witness ==
    /\ loadPc = "names"
    /\ messages # <<>>
    /\ user_names # UserNamesOf(messages)
    /\ rq.pc = "done"
    /\ rq.result.kind = "http500"

Blankish(raw) == ~raw.some \/ \A i \in DOMAIN raw.val : IsSpace(raw.val[i])

Untouched(r) == ~r.guessed /\ ~r.scoredAny /\ ~r.fellBack /\ ~r.answerer

\* C5: a blank question ends with the "non-empty question" message, loaded or
\* not; any other question on an empty message list ends with the "no messages
\* loaded" message; in both, no member resolution, scoring or answerer.
C5_ShortCircuits ==
    InAsk(rq) =>
        /\ Blankish(rq.question.raw) =>
              /\ rq.pc = "done"
              /\ rq.result = Result("return", EMPTY_QUESTION)
              /\ Untouched(rq)
        /\ (~Blankish(rq.question.raw) /\ messages = <<>> /\ rq.pc # "loaded") =>
              /\ rq.pc = "done"
              /\ rq.result = Result("return", NOT_LOADED)
              /\ Untouched(rq)

\* a whitespace-only question on an engine with no messages
C5_Witness ==
    /\ InAsk(rq)
    /\ rq.question.raw = Some(QSpaces)
    /\ messages = <<>>
    /\ rq.result = Result("return", EMPTY_QUESTION)

\* C6: with messages selected and the answerer unconfigured or its call
\* failing, answer returns a text that is none of the three retrieval
\* messages; with nothing selected it returns the "couldn't find" message.
C6_Degrades ==
    /\ (InAsk(rq) /\ rq.pc = "done" /\ rq.answerer /\ (client = "None" \/ rq.llmRaised)) =>
          /\ rq.top # <<>>
          /\ rq.result.kind = "return"
          /\ rq.result.text \notin {"", NOT_FOUND, NOT_LOADED, EMPTY_QUESTION}
          /\ client = "None" => rq.result.text = UNCONFIGURED
          /\ rq.llmRaised => rq.result.text # UNCONFIGURED
    /\ (InAsk(rq) /\ rq.pc = "done" /\ rq.scoredAny /\ rq.scored = <<>>) =>
          /\ rq.result = Result("return", NOT_FOUND)
          /\ ~rq.answerer

\* the client's call raised after messages were selected
C6_Witness ==
    /\ InAsk(rq) /\ rq.pc = "done"
    /\ rq.llmRaised
    /\ rq.top # <<>>
    /\ rq.result.text = LLM_ERROR \o "Connection error."

\* the score of a name: the higher of its full-name and first-word similarity
NameScore(name, question) ==
    Max(PartialRatio(Lower(name), question), PartialRatio(Lower(Split(name)[1]), question))

\* C7: _guess_member returns the first name in sorted order among those with
\* the highest score when that score is at least 70, and no member when it is
\* lower or there is no name.
C7_GuessMember ==
    (rq.guessed /\ rq.result.kind # "raise") =>
        LET names == rq.sawNames
            scores == {NameScore(names[i], rq.question) : i \in DOMAIN names}
            best == CHOOSE b \in scores : \A c \in scores : c <= b
            first == CHOOSE i \in DOMAIN names :
                        /\ NameScore(names[i], rq.question) = best
                        /\ \A j \in 1..(i - 1) : NameScore(names[j], rq.question) # best
        IN  /\ \A i \in 1..(Len(names) - 1) : StrLess(names[i], names[i + 1])
            /\ IF names = <<>> THEN rq.member = None
               ELSE IF best < Threshold THEN rq.member = None
               ELSE rq.member = Some(names[first])

\* two names tie at exactly the threshold and the first of them is returned
C7_Witness ==
    /\ rq.guessed
    /\ rq.sawNames = <<AlB, AlC, Bo>>
    /\ NameScore(AlB, rq.question) = Threshold
    /\ NameScore(AlC, rq.question) = Threshold
    /\ NameScore(Bo, rq.question) = Threshold - 1
    /\ rq.member = Some(AlB)

WellFormed(item) == RequiredFields \subseteq DOMAIN item

C9_PureAndRepeatable ==
    InAsk(rq) =>
        /\ messages = rq.before.messages
        /\ user_names = rq.before.user_names
        /\ (rq.pc = "done" /\ rq.prev.has) => Selection(rq) = rq.prev.sel

\* the second call of a question whose selection the sort had to reorder
C9_Witness ==
    /\ InAsk(rq) /\ rq.pc = "done" /\ rq.prev.has
    /\ rq.answerer
    /\ Len(rq.top) >= 2
    /\ \E i, j \in DOMAIN rq.scored : i < j /\ rq.scored[i].score < rq.scored[j].score

\* C10: with a member resolved, every message of that member is scored with
\* the sender bonus and kept, so the narrowed pass is not empty, the fallback
\* pass fills nothing, and "couldn't find" is returned only with no member.
C10_NarrowedPassNeverEmpty ==
    InAsk(rq) =>
        /\ (rq.scoredAny /\ Truthy(rq.member)) =>
              /\ rq.by = "first" /\ ~rq.fellBack
              /\ rq.scored # <<>>
              /\ Len(rq.scored) = Cardinality({i \in DOMAIN messages :
                                                 messages[i].user_name = rq.member.val})
              /\ \A j \in DOMAIN rq.scored :
                    /\ rq.scored[j].m.user_name = rq.member.val
                    /\ rq.scored[j].score % 2 = Bonus2
        /\ rq.fellBack => rq.by = "none" /\ rq.scored = <<>>
        /\ rq.result = Result("return", NOT_FOUND) => rq.guessed /\ rq.member = None

\* a message of the resolved member is kept by the bonus alone while a message
\* of another member shares a token with the question
C10_Witness ==
    /\ InAsk(rq) /\ rq.scoredAny /\ Truthy(rq.member)
    /\ \E j \in DOMAIN rq.scored : rq.scored[j].score = Bonus2
    /\ \E i \in DOMAIN messages :
          messages[i].user_name # rq.member.val /\ SharesToken(rq.q, messages[i])

=============================================================================
